---- MODULE Spec2Model ----
(***************************************************************************)
(* Model of the Miac-to-C code generator (src/src/main.rs).                *)
(*                                                                         *)
(* Text is a sequence of one-character strings, so that String::pop,       *)
(* push_str and format! act on characters as they do in the source.        *)
(* A tree-sitter Node together with the source text it indexes is a record *)
(*   [kind, text, children, fnames]                                        *)
(* where text is the node's utf8_text, children the ordered children and   *)
(* fnames[i] the field name of children[i] ("" when the child has none).   *)
(* A call that panics (Option::unwrap on None) yields the result Panic;    *)
(* a call that returns yields Ok(text).                                    *)
(***************************************************************************)
EXTENDS Naturals, Sequences, FiniteSets

VARIABLES
    call,       \* the function applied last and its argument
    ret,        \* what that call produced: Ok(text) or Panic
    tree,       \* the program root handed to main's walk
    pc,         \* position of main: "idle", "walk", "returned", "done", "panicked"
    stack,      \* the live call frames of the walk, innermost last
    rv,         \* the String returned by the frame that has just returned
    file        \* the output file: <<>> while unwritten, <<text>> once written

vars == <<call, ret, tree, pc, stack, rv, file>>

----------------------------------------------------------------------------
(* Text constants                                                          *)

NL == "\n"

t_empty == <<>>
t_int == <<"i", "n", "t">>
t_float == <<"f", "l", "o", "a", "t">>
t_char_ptr == <<"c", "h", "a", "r", " ", "*">>
t_i32 == <<"i", "3", "2">>
t_f32 == <<"f", "3", "2">>
t_string == <<"s", "t", "r", "i", "n", "g">>
t_bool == <<"b", "o", "o", "l">>
t_u8 == <<"u", "8">>
t_const == <<"c", "o", "n", "s", "t">>
t_const_sp == <<"c", "o", "n", "s", "t", " ">>
t_let == <<"l", "e", "t">>
t_constant == <<"c", "o", "n", "s", "t", "a", "n", "t">>
t_return == <<"r", "e", "t", "u", "r", "n">>
t_return_sp == <<"r", "e", "t", "u", "r", "n", " ">>
t_while == <<"w", "h", "i", "l", "e">>
t_if == <<"i", "f">>
t_add == <<"a", "d", "d">>
t_a == <<"a">>
t_b == <<"b">>
t_x == <<"x">>
t_5 == <<"5">>
t_a_plus_b == <<"a", " ", "+", " ", "b">>
t_a_lt_b == <<"a", " ", "<", " ", "b">>
t_assign == <<"x", " ", "=", " ", "a", ";">>
t_call == <<"f", "(", ")", ";">>
t_comma == <<",">>
t_lparen == <<"(">>
t_rparen == <<")">>
t_lbrace == <<"{">>
t_rbrace == <<"}">>
t_semi == <<";">>

----------------------------------------------------------------------------
(* Results of calls and Option values                                      *)

Ok(s) == [ok |-> TRUE, s |-> s]
Panic == [ok |-> FALSE, s |-> <<>>]

None == <<>>
Some(x) == <<x>>

----------------------------------------------------------------------------
(* The tree-sitter Node API used by the generator                          *)

Node(kind, text, children, fnames) ==
    [kind |-> kind, text |-> text, children |-> children, fnames |-> fnames]

Token(kind, text) == Node(kind, text, <<>>, <<>>)

child_count(node) == Len(node.children)

\* Node::child(i), i counted from 0
child(node, i) ==
    IF i + 1 <= Len(node.children) THEN Some(node.children[i + 1]) ELSE None

\* Node::child_by_field_name: the first child carrying the field name
child_by_field_name(node, name) ==
    LET idx == {i \in 1..Len(node.children) : node.fnames[i] = name}
    IN  IF idx = {} THEN None
        ELSE Some(node.children[CHOOSE i \in idx : \A j \in idx : i <= j])

utf8_text(node) == node.text

----------------------------------------------------------------------------
(* String operations                                                       *)

\* String::push_str
push_str(s, t) == s \o t

\* String::pop: removes the last character, does nothing on an empty String
pop(s) == IF Len(s) = 0 THEN s ELSE SubSeq(s, 1, Len(s) - 1)

\* p is a prefix of s
IsPrefix(p, s) == Len(p) <= Len(s) /\ SubSeq(s, 1, Len(p)) = p

----------------------------------------------------------------------------
(* match_type                                                              *)

\* variant: the "bool" arm spells the C99 type
match_type_bool(t) ==
    IF t = t_i32 THEN t_int
    ELSE IF t = t_f32 THEN t_float
    ELSE IF t = t_string THEN t_char_ptr
    ELSE IF t = t_bool THEN t_bool
    ELSE t_empty

match_type(t) ==
    IF t = t_i32 THEN t_int
    ELSE IF t = t_f32 THEN t_float
    ELSE IF t = t_string THEN t_char_ptr
    ELSE IF t = t_bool THEN t_int
    ELSE t_empty

(* get_field: unwrap of the field lookup, then the child's text            *)

\* variant: a missing field reads as the empty text instead of panicking
get_field_or_default(node, name) ==
    LET child_node == child_by_field_name(node, name)
    IN  IF child_node = None THEN Ok(t_empty) ELSE Ok(utf8_text(child_node[1]))

get_field(node, name) ==
    LET child_node == child_by_field_name(node, name)
    IN  IF child_node = None THEN Panic ELSE Ok(utf8_text(child_node[1]))

----------------------------------------------------------------------------
(* translate_variable_declaration                                          *)

\* variant: the specifier is matched by its beginning
mutability_prefix_starts_with(spec_text) ==
    IF IsPrefix(t_const, spec_text) THEN t_const_sp ELSE t_empty

mutability_prefix(spec_text) ==
    IF spec_text = t_const THEN t_const_sp ELSE t_empty

format_variable(mutability, var_type, var_name, value_text) ==
    mutability \o var_type \o <<" ">> \o var_name \o <<" ", "=", " ">>
        \o value_text \o <<";", NL>>

translate_variable_declaration(node) ==
    LET ty == get_field(node, "type")
        nm == get_field(node, "name")
        mu == get_field(node, "mutability_specifier")
        var_value == child_by_field_name(node, "value")
    IN  IF ~ty.ok \/ ~nm.ok \/ ~mu.ok \/ var_value = None THEN Panic
        ELSE Ok(format_variable(mutability_prefix(mu.s), match_type(ty.s), nm.s,
                                utf8_text(var_value[1])))

(* translate_return_statement                                              *)

\* variant: the first child, the keyword, is taken for the expression
return_expr_child_first(node) == child(node, 0)

return_expr_child(node) == child(node, 1)

translate_return_statement(node) ==
    LET child_node == return_expr_child(node)
    IN  IF child_node = None THEN Panic
        ELSE Ok(t_return_sp \o utf8_text(child_node[1]) \o <<";", NL>>)

----------------------------------------------------------------------------
(* translate_block                                                         *)

format_while(condition, body_text) ==
    t_while \o <<" ", "(">> \o condition \o <<")", " ", "{", NL>>
        \o body_text \o <<"}", NL>>

\* variant: the closing brace is left out
format_if_unclosed(condition, body_text) ==
    t_if \o <<" ", "(">> \o condition \o <<")", " ", "{", NL>> \o body_text \o <<NL>>

format_if(condition, body_text) ==
    t_if \o <<" ", "(">> \o condition \o <<")", " ", "{", NL>>
        \o body_text \o <<"}", NL>>

format_assignment(text) == text \o <<NL>>

\* variant: the statement's text is put in front
block_prepend(c_code, code) == code \o c_code

\* `c_code.push_str(&statement_code)`
block_append(c_code, code) == push_str(c_code, code)

\* variant: an unrecognized statement is copied through
default_statement_text(statement) == utf8_text(statement) \o <<NL>>

\* the `_ => String::new()` arm
default_statement_code(statement) == t_empty

RECURSIVE translate_block(_)

\* one iteration's `match statement.kind()`
statement_code(statement) ==
    CASE statement.kind = "return_statement" ->
            translate_return_statement(statement)
      [] statement.kind = "variable_declaration" ->
            translate_variable_declaration(statement)
      [] statement.kind = "assignment_statement" ->
            Ok(format_assignment(utf8_text(statement)))
      [] statement.kind = "while_statement" ->
            LET condition == get_field(statement, "condition")
                body == child_by_field_name(statement, "body")
            IN  IF ~condition.ok \/ body = None THEN Panic
                ELSE LET body_text == translate_block(body[1])
                     IN  IF ~body_text.ok THEN Panic
                         ELSE Ok(format_while(condition.s, body_text.s))
      [] statement.kind = "if_statement" ->
            LET condition == get_field(statement, "condition")
                body == child_by_field_name(statement, "body")
            IN  IF ~condition.ok \/ body = None THEN Panic
                ELSE LET body_text == translate_block(body[1])
                     IN  IF ~body_text.ok THEN Panic
                         ELSE Ok(format_if(condition.s, body_text.s))
      [] OTHER -> Ok(default_statement_code(statement))

\* the `for statement in node.children(..)` loop from child i on
RECURSIVE block_loop(_, _, _)
block_loop(statements, i, c_code) ==
    IF i > Len(statements) THEN Ok(c_code)
    ELSE LET code == statement_code(statements[i])
         IN  IF ~code.ok THEN Panic
             ELSE block_loop(statements, i + 1, block_append(c_code, code.s))

translate_block(node) == block_loop(node.children, 1, t_empty)

----------------------------------------------------------------------------
(* translate_function                                                      *)

format_signature_open(return_type, function_name) ==
    return_type \o <<" ">> \o function_name \o <<"(">>

format_param(param_type, param_name) ==
    param_type \o <<" ">> \o param_name \o <<",", " ">>

\* variant: only one character is popped
strip_separator_once(param_list) == pop(param_list)

\* the two `param_list.pop()` calls
strip_separator(param_list) == pop(pop(param_list))

\* the `for child in parameters.children(..)` loop from child i on
RECURSIVE param_loop(_, _, _)
param_loop(params, i, param_list) ==
    IF i > Len(params) THEN Ok(param_list)
    ELSE IF params[i].kind = "parameter"
         THEN LET param_name == get_field(params[i], "name")
                  param_type == get_field(params[i], "type")
              IN  IF ~param_name.ok \/ ~param_type.ok THEN Panic
                  ELSE param_loop(params, i + 1,
                          push_str(param_list,
                                   format_param(match_type(param_type.s), param_name.s)))
         ELSE param_loop(params, i + 1, param_list)

\* the text put between "(" and ")"
translate_parameters(parameters) ==
    IF child_count(parameters) > 0
    THEN LET param_list == param_loop(parameters.children, 1, t_empty)
         IN  IF ~param_list.ok THEN Panic ELSE Ok(strip_separator(param_list.s))
    ELSE Ok(t_empty)

translate_function(node) ==
    LET function_name == get_field(node, "name")
        return_type == get_field(node, "return_type")
        parameters == child_by_field_name(node, "parameters")
        body == child_by_field_name(node, "body")
    IN  IF ~function_name.ok \/ ~return_type.ok \/ parameters = None \/ body = None
        THEN Panic
        ELSE LET c0 == format_signature_open(match_type(return_type.s), function_name.s)
                 pl == translate_parameters(parameters[1])
             IN  IF ~pl.ok THEN Panic
                 ELSE LET c1 == push_str(push_str(c0, pl.s), <<")", " ", "{", NL>>)
                          body_code == translate_block(body[1])
                      IN  IF ~body_code.ok THEN Panic
                          ELSE Ok(push_str(push_str(c1, body_code.s), <<"}", NL>>))

----------------------------------------------------------------------------
(* translate_to_c                                                          *)

\* variant: other kinds fall through to the statement rules
top_level_statement_code(child_node) ==
    CASE child_node.kind = "function_definition" -> translate_function(child_node)
      [] child_node.kind = "variable_declaration" ->
            translate_variable_declaration(child_node)
      [] OTHER -> statement_code(child_node)

\* one iteration's `match child.kind()`
top_level_code(child_node) ==
    CASE child_node.kind = "function_definition" -> translate_function(child_node)
      [] child_node.kind = "variable_declaration" ->
            translate_variable_declaration(child_node)
      [] OTHER -> Ok(t_empty)

RECURSIVE root_loop(_, _, _)
root_loop(children, i, c_code) ==
    IF i > Len(children) THEN Ok(c_code)
    ELSE LET code == top_level_code(children[i])
         IN  IF ~code.ok THEN Panic
             ELSE root_loop(children, i + 1, push_str(c_code, code.s))

translate_to_c(root) == root_loop(root.children, 1, t_empty)

----------------------------------------------------------------------------
(* Bounds of the input space                                               *)

MaxTypeLen == 3        \* longest enumerated type name
MaxParamChildren == 3  \* most children of a parameters node
MaxStatements == 3     \* most statement nodes in a body, nested ones included
MaxTopLevel == 2       \* most children of the program root

----------------------------------------------------------------------------
(* Trees the parser can hand over                                          *)

\* parts: a sequence of <<field name, child>> pairs, "" for a child without field
NodeOf(kind, text, parts) ==
    Node(kind, text, [i \in 1..Len(parts) |-> parts[i][2]],
                     [i \in 1..Len(parts) |-> parts[i][1]])

Without(parts, missing) ==
    LET keep(p) == p[1] \notin missing IN SelectSeq(parts, keep)

Plain(children) == [i \in 1..Len(children) |-> <<"", children[i]>>]

Ident(text) == Token("identifier", text)
TypeNode(text) == Token("type", text)
Expr(text) == Token("expression", text)

\* `<mu> <nm>: <ty> = <va>;` without the fields named in missing
VarDecl(mu, nm, ty, va, missing) ==
    NodeOf("variable_declaration",
           mu \o <<" ">> \o nm \o <<":", " ">> \o ty \o <<" ", "=", " ">> \o va \o t_semi,
           Without(<< <<"mutability_specifier", Token("mutability_specifier", mu)>>,
                      <<"name", Ident(nm)>>,
                      <<"", Token(":", <<":">>)>>,
                      <<"type", TypeNode(ty)>>,
                      <<"", Token("=", <<"=">>)>>,
                      <<"value", Expr(va)>>,
                      <<"", Token(";", t_semi)>> >>, missing))

\* `return <expr>;`
ReturnStmt(expr) ==
    NodeOf("return_statement", t_return_sp \o expr \o t_semi,
           Plain(<<Token("return", t_return), Expr(expr), Token(";", t_semi)>>))

\* a return_statement with a single child
ReturnNoExpr == NodeOf("return_statement", t_return, Plain(<<Token("return", t_return)>>))

AssignStmt == Token("assignment_statement", t_assign)

Block(statements) ==
    NodeOf("block", t_lbrace \o t_rbrace,
           Plain(<<Token("{", t_lbrace)>> \o statements \o <<Token("}", t_rbrace)>>))

\* `while (<cond>) <body>` / `if (<cond>) <body>` without the fields in missing
Loop(kind, kw, cond, body, missing) ==
    NodeOf(kind, kw \o <<" ">> \o cond,
           Without(<< <<"", Token("keyword", kw)>>,
                      <<"condition", Expr(cond)>>,
                      <<"body", body>> >>, missing))

WhileStmt(cond, body) == Loop("while_statement", t_while, cond, body, {})
IfStmt(cond, body) == Loop("if_statement", t_if, cond, body, {})

\* a statement of a kind the generator has no arm for; its subtree holds nodes
\* that would make their own rules panic
CallStmt ==
    NodeOf("expression_statement", t_call,
           << <<"value", ReturnNoExpr>>,
              <<"body", Loop("while_statement", t_while, t_a_lt_b, Block(<<>>), {"body"})>> >>)

Parameter(nm, ty, missing) ==
    NodeOf("parameter", nm \o <<":", " ">> \o ty,
           Without(<< <<"name", Ident(nm)>>,
                      <<"", Token(":", <<":">>)>>,
                      <<"type", TypeNode(ty)>> >>, missing))

Parameters(children) == NodeOf("parameter_list", t_lparen \o t_rparen, Plain(children))

FunctionDef(nm, params, rt, body, missing) ==
    NodeOf("function_definition", nm,
           Without(<< <<"name", Ident(nm)>>,
                      <<"parameters", params>>,
                      <<"return_type", TypeNode(rt)>>,
                      <<"body", body>> >>, missing))

Program(children) == NodeOf("program", t_empty, Plain(children))

----------------------------------------------------------------------------
(* Bounded input sets                                                      *)

RECURSIVE SeqsUpTo(_, _)
SeqsUpTo(S, n) ==
    IF n = 0 THEN {<<>>}
    ELSE LET shorter == SeqsUpTo(S, n - 1)
         IN  shorter \cup {Append(q, x) : q \in {r \in shorter : Len(r) = n - 1}, x \in S}

TypeChars == {"i", "f", "3", "2"}

TypeNames ==
    SeqsUpTo(TypeChars, MaxTypeLen) \cup {t_i32, t_f32, t_string, t_bool, t_u8, t_int}

DeclTypes == {t_i32, t_f32, t_string, t_bool, t_u8}
Specifiers == {t_const, t_let, t_constant, t_const_sp, t_empty}
DeclFields == {"mutability_specifier", "name", "type", "value"}

VarDecls ==
    {VarDecl(mu, nm, ty, va, {}) :
        mu \in Specifiers, nm \in {t_x, t_a}, ty \in DeclTypes, va \in {t_5, t_a_plus_b}}
    \cup {VarDecl(t_const, t_x, t_i32, t_5, missing) : missing \in SUBSET DeclFields}

ConstX == VarDecl(t_const, t_x, t_i32, t_5, {})

\* statements without nested statements
SimpleStatements ==
    {ReturnStmt(t_a_plus_b), AssignStmt, ConstX, CallStmt, ReturnNoExpr,
     Loop("if_statement", t_if, t_a_lt_b, Block(<<>>), {"condition"})}

\* statements that lack a field their rule reads
BrokenStatements ==
    {ReturnNoExpr, VarDecl(t_let, t_a, t_u8, t_5, {"type"})}
    \cup {Loop("while_statement", t_while, t_a_lt_b, Block(<<AssignStmt>>), missing) :
            missing \in (SUBSET {"condition", "body"}) \ {{}}}
    \cup {Loop("if_statement", t_if, t_a_lt_b, Block(<<AssignStmt>>), missing) :
            missing \in (SUBSET {"condition", "body"}) \ {{}}}

\* StatementLists[n]: the statement sequences holding n statement nodes in all
StatementLists[n \in 0..MaxStatements] ==
    IF n = 0 THEN {<<>>}
    ELSE UNION {
            {<<st>> \o rest :
                st \in (IF k = 1 THEN SimpleStatements ELSE {})
                       \cup {WhileStmt(t_a_lt_b, Block(b)) : b \in StatementLists[k - 1]}
                       \cup {IfStmt(t_x, Block(b)) : b \in StatementLists[k - 1]},
                rest \in StatementLists[n - k]} : k \in 1..n}

Blocks ==
    {Block(b) : b \in UNION {StatementLists[n] : n \in 0..MaxStatements}}
    \cup {Block(<<AssignStmt, st>>) : st \in BrokenStatements}

ReturnStatements ==
    {ReturnStmt(e) : e \in {t_5, t_a_plus_b, t_empty}}
    \cup {ReturnNoExpr, NodeOf("return_statement", t_empty, <<>>)}

ParamChildren ==
    {Parameter(t_a, t_i32, {}), Parameter(t_b, t_string, {}), Parameter(t_x, t_u8, {}),
     Parameter(t_a, t_i32, {"type"}), Token(",", t_comma)}

ParameterLists == {Parameters(c) : c \in SeqsUpTo(ParamChildren, MaxParamChildren)}

\* `(a: i32, b: i32)`
ParamsAB ==
    Parameters(<<Token("(", t_lparen), Parameter(t_a, t_i32, {}), Token(",", t_comma),
                 Parameter(t_b, t_i32, {}), Token(")", t_rparen)>>)

ReturnAB == Block(<<ReturnStmt(t_a_plus_b)>>)

\* `fn add(a: i32, b: i32) -> i32 { return a + b; }`
AddFunction == FunctionDef(t_add, ParamsAB, t_i32, ReturnAB, {})

FunctionFields == {"name", "parameters", "return_type", "body"}

Functions ==
    {FunctionDef(t_add, pl, t_i32, ReturnAB, {}) : pl \in ParameterLists}
    \cup {FunctionDef(t_x, ParamsAB, t_i32, body, {}) : body \in Blocks}
    \cup {FunctionDef(t_add, ParamsAB, rt, ReturnAB, missing) :
            rt \in DeclTypes, missing \in SUBSET FunctionFields}

\* what the program root may hold
TopLevelNodes ==
    {AddFunction,
     FunctionDef(t_x, Parameters(<<>>), t_f32,
                 Block(<<WhileStmt(t_a_lt_b, Block(<<IfStmt(t_x, Block(<<AssignStmt>>)), CallStmt>>)),
                         ConstX>>), {}),
     FunctionDef(t_add, ParamsAB, t_i32, ReturnAB, {"body"}),
     FunctionDef(t_add, Parameters(<<Parameter(t_a, t_i32, {"name"})>>), t_i32, ReturnAB, {}),
     FunctionDef(t_x, ParamsAB, t_bool,
                 Block(<<AssignStmt, IfStmt(t_x, Block(<<AssignStmt, ReturnNoExpr>>))>>), {}),
     ConstX,
     VarDecl(t_let, t_a, t_string, t_a_plus_b, {"value"}),
     WhileStmt(t_a_lt_b, Block(<<AssignStmt, ReturnNoExpr>>)),
     ReturnStmt(t_5),
     CallStmt}

Programs == {Program(c) : c \in SeqsUpTo(TopLevelNodes, MaxTopLevel)}

\* the programs main is run on: the above, and one function around each body
\* of fewer than MaxStatements statements
WalkPrograms ==
    Programs
    \cup {Program(<<FunctionDef(t_x, ParamsAB, t_i32, Block(b), {})>>) :
            b \in UNION {StatementLists[n] : n \in 0..(MaxStatements - 1)}}
    \cup {Program(<<AddFunction, FunctionDef(t_x, ParamsAB, t_i32, Block(<<AssignStmt, st>>), {})>>) :
            st \in BrokenStatements}
    \cup {Program(<<AddFunction, FunctionDef(t_x, ParamsAB, t_f32, ReturnAB, missing)>>) :
            missing \in SUBSET FunctionFields}
    \cup {Program(<<ConstX, VarDecl(t_let, t_a, t_bool, t_5, missing)>>) :
            missing \in SUBSET DeclFields}

----------------------------------------------------------------------------
(* Specification of the functions: a call is drawn, then applied            *)

NoNode == Program(<<>>)

CallOf(fn, node, text) == [fn |-> fn, node |-> node, text |-> text]

NoCall == CallOf("none", NoNode, t_empty)

InitCall ==
    \/ \E t \in TypeNames : call = CallOf("match_type", NoNode, t)
    \/ \E n \in VarDecls, f \in DeclFields : call = CallOf("get_field", n, f)
    \/ \E n \in VarDecls : call = CallOf("translate_variable_declaration", n, t_empty)
    \/ \E n \in ReturnStatements : call = CallOf("translate_return_statement", n, t_empty)
    \/ \E n \in Blocks : call = CallOf("translate_block", n, t_empty)
    \/ \E n \in Functions : call = CallOf("translate_function", n, t_empty)
    \/ \E n \in Programs : call = CallOf("translate_to_c", n, t_empty)

Init ==
    /\ InitCall
    /\ ret = None
    /\ tree = NoNode
    /\ pc = "idle"
    /\ stack = <<>>
    /\ rv = t_empty
    /\ file = None

Apply(fn, result) ==
    /\ call.fn = fn
    /\ ret = None
    /\ ret' = Some(result)
    /\ UNCHANGED <<call, tree, pc, stack, rv, file>>

Apply_match_type == Apply("match_type", Ok(match_type(call.text)))

Apply_get_field == Apply("get_field", get_field(call.node, call.text))

Apply_translate_variable_declaration ==
    Apply("translate_variable_declaration", translate_variable_declaration(call.node))

Apply_translate_return_statement ==
    Apply("translate_return_statement", translate_return_statement(call.node))

Apply_translate_block == Apply("translate_block", translate_block(call.node))

Apply_translate_function == Apply("translate_function", translate_function(call.node))

Apply_translate_to_c == Apply("translate_to_c", translate_to_c(call.node))

Next ==
    \/ Apply_match_type
    \/ Apply_get_field
    \/ Apply_translate_variable_declaration
    \/ Apply_translate_return_statement
    \/ Apply_translate_block
    \/ Apply_translate_function
    \/ Apply_translate_to_c

Spec == Init /\ [][Next]_vars

\* the call has been applied / what it produced
Returned(fn) == call.fn = fn /\ ret # None
Result == ret[1]

----------------------------------------------------------------------------
(* Specification of main: the walk of one program, a step per statement of  *)
(* the generator. A frame is one live call; its c_code and param_list are   *)
(* the call's local Strings.                                                *)

Frame(fn, node) ==
    [fn |-> fn, node |-> node, step |-> "entry", i |-> 1,
     c_code |-> t_empty, param_list |-> t_empty, condition |-> t_empty]

Top == stack[Len(stack)]
SetTop(frame) == [stack EXCEPT ![Len(stack)] = frame]
Callers == SubSeq(stack, 1, Len(stack) - 1)

Running(fn, step) ==
    /\ pc = "walk"
    /\ stack # <<>>
    /\ Top.fn = fn
    /\ Top.step = step

\* a panic unwinds every frame; main never gets to its write
Unwind ==
    /\ pc' = "panicked"
    /\ stack' = <<>>
    /\ UNCHANGED <<rv, file>>

Continue(frames) ==
    /\ stack' = frames
    /\ UNCHANGED <<pc, rv, file>>

\* `return c_code` of the innermost call
Return ==
    /\ stack' = Callers
    /\ rv' = Top.c_code
    /\ UNCHANGED <<pc, file>>

\* variant: the separator is popped off the function's text
pop_c_code(frame) == [frame EXCEPT !.c_code = pop(@)]

\* `param_list.pop()`
pop_param_list(frame) == [frame EXCEPT !.param_list = pop(@)]

InitWalk ==
    /\ tree \in WalkPrograms
    /\ pc = "start"
    /\ stack = <<>>
    /\ rv = t_empty
    /\ file = None
    /\ call = NoCall
    /\ ret = None

Main_call_translate_to_c ==
    /\ pc = "start"
    /\ pc' = "walk"
    /\ stack' = <<[Frame("translate_to_c", tree) EXCEPT !.step = "loop"]>>
    /\ UNCHANGED <<call, ret, tree, rv, file>>

ToC_function ==
    /\ Running("translate_to_c", "loop")
    /\ Top.i <= Len(Top.node.children)
    /\ Top.node.children[Top.i].kind = "function_definition"
    /\ Continue(Append(SetTop([Top EXCEPT !.step = "await"]),
                       Frame("translate_function", Top.node.children[Top.i])))
    /\ UNCHANGED <<call, ret, tree>>

ToC_push_function ==
    /\ Running("translate_to_c", "await")
    /\ Continue(SetTop([Top EXCEPT !.c_code = push_str(@, rv), !.i = @ + 1,
                                   !.step = "loop"]))
    /\ UNCHANGED <<call, ret, tree>>

ToC_variable ==
    /\ Running("translate_to_c", "loop")
    /\ Top.i <= Len(Top.node.children)
    /\ Top.node.children[Top.i].kind = "variable_declaration"
    /\ LET translated_variable == translate_variable_declaration(Top.node.children[Top.i])
       IN  IF translated_variable.ok
           THEN Continue(SetTop([Top EXCEPT !.c_code = push_str(@, translated_variable.s),
                                            !.i = @ + 1]))
           ELSE Unwind
    /\ UNCHANGED <<call, ret, tree>>

ToC_other ==
    /\ Running("translate_to_c", "loop")
    /\ Top.i <= Len(Top.node.children)
    /\ Top.node.children[Top.i].kind \notin {"function_definition", "variable_declaration"}
    /\ Continue(SetTop([Top EXCEPT !.i = @ + 1]))
    /\ UNCHANGED <<call, ret, tree>>

ToC_return ==
    /\ Running("translate_to_c", "loop")
    /\ Top.i > Len(Top.node.children)
    /\ stack' = Callers
    /\ rv' = Top.c_code
    /\ pc' = "returned"
    /\ UNCHANGED <<call, ret, tree, file>>

Main_write ==
    /\ pc = "returned"
    /\ file' = Some(rv)
    /\ pc' = "done"
    /\ UNCHANGED <<call, ret, tree, stack, rv>>

Fn_entry ==
    /\ Running("translate_function", "entry")
    /\ LET function_name == get_field(Top.node, "name")
           return_type == get_field(Top.node, "return_type")
           parameters == child_by_field_name(Top.node, "parameters")
           body == child_by_field_name(Top.node, "body")
       IN  IF ~function_name.ok \/ ~return_type.ok \/ parameters = None \/ body = None
           THEN Unwind
           ELSE Continue(SetTop([Top EXCEPT
                    !.c_code = format_signature_open(match_type(return_type.s),
                                                     function_name.s),
                    !.step = IF child_count(parameters[1]) > 0 THEN "params" ELSE "close"]))
    /\ UNCHANGED <<call, ret, tree>>

Fn_param ==
    /\ Running("translate_function", "params")
    /\ LET params == child_by_field_name(Top.node, "parameters")[1].children
       IN  /\ Top.i <= Len(params)
           /\ IF params[Top.i].kind = "parameter"
              THEN LET param_name == get_field(params[Top.i], "name")
                       param_type == get_field(params[Top.i], "type")
                   IN  IF ~param_name.ok \/ ~param_type.ok
                       THEN Unwind
                       ELSE Continue(SetTop([Top EXCEPT
                                !.param_list = push_str(@,
                                    format_param(match_type(param_type.s), param_name.s)),
                                !.i = @ + 1]))
              ELSE Continue(SetTop([Top EXCEPT !.i = @ + 1]))
    /\ UNCHANGED <<call, ret, tree>>

Fn_pop_comma ==
    /\ Running("translate_function", "params")
    /\ Top.i > Len(child_by_field_name(Top.node, "parameters")[1].children)
    /\ Continue(SetTop([pop_param_list(Top) EXCEPT !.step = "pop_space"]))
    /\ UNCHANGED <<call, ret, tree>>

Fn_pop_space ==
    /\ Running("translate_function", "pop_space")
    /\ Continue(SetTop([pop_param_list(Top) EXCEPT !.step = "push_params"]))
    /\ UNCHANGED <<call, ret, tree>>

Fn_push_params ==
    /\ Running("translate_function", "push_params")
    /\ Continue(SetTop([Top EXCEPT !.c_code = push_str(@, Top.param_list),
                                   !.step = "close"]))
    /\ UNCHANGED <<call, ret, tree>>

Fn_close_paren ==
    /\ Running("translate_function", "close")
    /\ Continue(SetTop([Top EXCEPT !.c_code = push_str(@, <<")", " ", "{", NL>>),
                                   !.step = "body"]))
    /\ UNCHANGED <<call, ret, tree>>

Fn_call_block ==
    /\ Running("translate_function", "body")
    /\ Continue(Append(SetTop([Top EXCEPT !.step = "await"]),
                       [Frame("translate_block", child_by_field_name(Top.node, "body")[1])
                            EXCEPT !.step = "loop"]))
    /\ UNCHANGED <<call, ret, tree>>

Fn_push_body ==
    /\ Running("translate_function", "await")
    /\ Continue(SetTop([Top EXCEPT !.c_code = push_str(@, rv), !.step = "brace"]))
    /\ UNCHANGED <<call, ret, tree>>

Fn_close_brace ==
    /\ Running("translate_function", "brace")
    /\ Continue(SetTop([Top EXCEPT !.c_code = push_str(@, <<"}", NL>>),
                                   !.step = "return"]))
    /\ UNCHANGED <<call, ret, tree>>

Fn_return ==
    /\ Running("translate_function", "return")
    /\ Return
    /\ UNCHANGED <<call, ret, tree>>

\* return_statement, variable_declaration and assignment_statement arms
Blk_simple ==
    /\ Running("translate_block", "loop")
    /\ Top.i <= Len(Top.node.children)
    /\ Top.node.children[Top.i].kind \in
          {"return_statement", "variable_declaration", "assignment_statement"}
    /\ LET code == statement_code(Top.node.children[Top.i])
       IN  IF code.ok
           THEN Continue(SetTop([Top EXCEPT !.c_code = block_append(@, code.s),
                                            !.i = @ + 1]))
           ELSE Unwind
    /\ UNCHANGED <<call, ret, tree>>

\* while_statement and if_statement arms up to the recursive call
Blk_enter_loop ==
    /\ Running("translate_block", "loop")
    /\ Top.i <= Len(Top.node.children)
    /\ Top.node.children[Top.i].kind \in {"while_statement", "if_statement"}
    /\ LET statement == Top.node.children[Top.i]
           condition == get_field(statement, "condition")
           body == child_by_field_name(statement, "body")
       IN  IF ~condition.ok \/ body = None
           THEN Unwind
           ELSE Continue(Append(SetTop([Top EXCEPT !.step = "await",
                                                   !.condition = condition.s]),
                                [Frame("translate_block", body[1]) EXCEPT !.step = "loop"]))
    /\ UNCHANGED <<call, ret, tree>>

\* the arm's format! and the push of its text
Blk_push_loop ==
    /\ Running("translate_block", "await")
    /\ LET code == IF Top.node.children[Top.i].kind = "while_statement"
                   THEN format_while(Top.condition, rv)
                   ELSE format_if(Top.condition, rv)
       IN  Continue(SetTop([Top EXCEPT !.c_code = block_append(@, code),
                                       !.i = @ + 1, !.step = "loop"]))
    /\ UNCHANGED <<call, ret, tree>>

Blk_other ==
    /\ Running("translate_block", "loop")
    /\ Top.i <= Len(Top.node.children)
    /\ Top.node.children[Top.i].kind \notin
          {"return_statement", "variable_declaration", "assignment_statement",
           "while_statement", "if_statement"}
    /\ Continue(SetTop([Top EXCEPT
            !.c_code = block_append(@, default_statement_code(Top.node.children[Top.i])),
            !.i = @ + 1]))
    /\ UNCHANGED <<call, ret, tree>>

Blk_return ==
    /\ Running("translate_block", "loop")
    /\ Top.i > Len(Top.node.children)
    /\ Return
    /\ UNCHANGED <<call, ret, tree>>

WalkNext ==
    \/ Main_call_translate_to_c
    \/ ToC_function
    \/ ToC_push_function
    \/ ToC_variable
    \/ ToC_other
    \/ ToC_return
    \/ Main_write
    \/ Fn_entry
    \/ Fn_param
    \/ Fn_pop_comma
    \/ Fn_pop_space
    \/ Fn_push_params
    \/ Fn_close_paren
    \/ Fn_call_block
    \/ Fn_push_body
    \/ Fn_close_brace
    \/ Fn_return
    \/ Blk_simple
    \/ Blk_enter_loop
    \/ Blk_push_loop
    \/ Blk_other
    \/ Blk_return

WalkSpec == InitWalk /\ [][WalkNext]_vars

----------------------------------------------------------------------------
(* Vocabulary of the properties                                            *)

Lacks(node, name) == \A i \in 1..Len(node.children) : node.fnames[i] # name

FieldNode(node, name) ==
    node.children[CHOOSE i \in 1..Len(node.children) : node.fnames[i] = name]

FieldText(node, name) == FieldNode(node, name).text

\* the table of section 4.1
LoweringTable ==
    {<<t_i32, t_int>>, <<t_f32, t_float>>, <<t_string, t_char_ptr>>, <<t_bool, t_int>>}

Lowered(t) ==
    IF \E p \in LoweringTable : p[1] = t
    THEN (CHOOSE p \in LoweringTable : p[1] = t)[2]
    ELSE <<>>

StatementKinds ==
    {"return_statement", "variable_declaration", "assignment_statement",
     "while_statement", "if_statement"}

\* a dispatched node lacks something its rule requires
MalformedDeclaration(node) == \E f \in DeclFields : Lacks(node, f)

RECURSIVE MalformedBlock(_)

MalformedStatement(st) ==
    CASE st.kind = "return_statement" -> Len(st.children) < 2
      [] st.kind = "variable_declaration" -> MalformedDeclaration(st)
      [] st.kind \in {"while_statement", "if_statement"} ->
            \/ Lacks(st, "condition")
            \/ Lacks(st, "body")
            \/ MalformedBlock(FieldNode(st, "body"))
      [] OTHER -> FALSE

MalformedBlock(block) ==
    \E i \in 1..Len(block.children) : MalformedStatement(block.children[i])

ParameterNodes(parameters) ==
    LET isParam(c) == c.kind = "parameter" IN SelectSeq(parameters.children, isParam)

MalformedFunction(node) ==
    \/ \E f \in FunctionFields : Lacks(node, f)
    \/ LET ps == ParameterNodes(FieldNode(node, "parameters"))
       IN  \E i \in 1..Len(ps) : Lacks(ps[i], "name") \/ Lacks(ps[i], "type")
    \/ MalformedBlock(FieldNode(node, "body"))

MalformedTopLevel(node) ==
    CASE node.kind = "function_definition" -> MalformedFunction(node)
      [] node.kind = "variable_declaration" -> MalformedDeclaration(node)
      [] OTHER -> FALSE

MalformedProgram(root) ==
    \E i \in 1..Len(root.children) : MalformedTopLevel(root.children[i])

\* `<lowered type> <name>` pairs joined by ", "
RECURSIVE JoinedPairs(_)
JoinedPairs(ps) ==
    IF Len(ps) = 0 THEN <<>>
    ELSE LET pair == Lowered(FieldText(ps[1], "type")) \o <<" ">> \o FieldText(ps[1], "name")
         IN  IF Len(ps) = 1 THEN pair
             ELSE pair \o <<",", " ">> \o JoinedPairs(Tail(ps))

SignatureUpToParen(node) ==
    Lowered(FieldText(node, "return_type")) \o <<" ">> \o FieldText(node, "name") \o <<"(">>

ExpectedAdd ==
    <<"i", "n", "t", " ", "a", "d", "d", "(", "i", "n", "t", " ", "a", ",", " ", "i",
      "n", "t", " ", "b", ")", " ", "{", NL, "r", "e", "t", "u", "r", "n", " ", "a",
      " ", "+", " ", "b", ";", NL, "}", NL>>

ExpectedConstX ==
    <<"c", "o", "n", "s", "t", " ", "i", "n", "t", " ", "x", " ", "=", " ", "5", ";",
      NL>>

----------------------------------------------------------------------------
(* C4: match_type is total and returns "int" for "i32", "float" for "f32",  *)
(* "char *" for "string", "int" for "bool" and "" for every other input.    *)
C4_MatchTypeTable ==
    Returned("match_type") =>
        /\ Result.ok
        /\ \A p \in LoweringTable : call.text = p[1] => Result.s = p[2]
        /\ (\A p \in LoweringTable : call.text # p[1]) => Result.s = <<>>

C4_Witness ==
    /\ Returned("match_type")
    /\ call.text = t_bool
    /\ Result = Ok(t_int)

\* C3: a declaration with its four fields yields the one line
\* `<mutability><lowered type> <name> = <value>;\n`, which begins with "const "
\* exactly when the specifier's text is "const"; `const x: i32 = 5;` yields
\* `const int x = 5;\n`.
C3_DeclarationLine ==
    Returned("translate_variable_declaration") /\ ~MalformedDeclaration(call.node) =>
        LET isConst == FieldText(call.node, "mutability_specifier") = t_const
            rest == Lowered(FieldText(call.node, "type")) \o <<" ">>
                        \o FieldText(call.node, "name") \o <<" ", "=", " ">>
                        \o FieldText(call.node, "value") \o <<";", NL>>
        IN  /\ Result.ok
            /\ Result.s = (IF isConst THEN t_const_sp ELSE <<>>) \o rest
            /\ IsPrefix(t_const_sp, Result.s) <=> isConst
            /\ call.node = ConstX => Result.s = ExpectedConstX

C3_Witness ==
    /\ Returned("translate_variable_declaration")
    /\ ~MalformedDeclaration(call.node)
    /\ FieldText(call.node, "mutability_specifier") = t_constant
    /\ FieldText(call.node, "type") = t_u8
    /\ Result.ok
    /\ ~IsPrefix(t_const_sp, Result.s)

\* C1: the text between "(" and ")" is the `<lowered type> <name>` pairs of the
\* children of kind "parameter", in order, joined by ", ", with no leading or
\* trailing separator; it is empty when there is no such child.
C1_ParameterList ==
    Returned("translate_function") /\ ~MalformedFunction(call.node) =>
        LET ps == ParameterNodes(FieldNode(call.node, "parameters"))
        IN  /\ Result.ok
            /\ IsPrefix(SignatureUpToParen(call.node) \o JoinedPairs(ps)
                            \o <<")", " ", "{", NL>>, Result.s)
            /\ Len(ps) = 0 =>
                   IsPrefix(SignatureUpToParen(call.node) \o <<")">>, Result.s)

C1_Witness ==
    /\ Returned("translate_function")
    /\ ~MalformedFunction(call.node)
    /\ LET parameters == FieldNode(call.node, "parameters")
       IN  /\ Len(ParameterNodes(parameters)) = 2
           /\ Len(parameters.children) = 3
           /\ parameters.children[2].kind = ","
    /\ Result.ok

\* C2: a well-formed function-definition yields
\* `<lowered return type> <name>(<param-list>) {\n`, the translation of the body
\* block, then `}\n`; a return statement yields `return <second child's text>;\n`;
\* add(a: i32, b: i32) -> i32 { return a + b; } yields the text ExpectedAdd.
C2_FunctionText ==
    /\ Returned("translate_function") /\ ~MalformedFunction(call.node) =>
          /\ Result.ok
          /\ Result.s = SignatureUpToParen(call.node)
                          \o JoinedPairs(ParameterNodes(FieldNode(call.node, "parameters")))
                          \o <<")", " ", "{", NL>>
                          \o translate_block(FieldNode(call.node, "body")).s
                          \o <<"}", NL>>
          /\ call.node = AddFunction => Result.s = ExpectedAdd
    /\ Returned("translate_return_statement") /\ Len(call.node.children) >= 2 =>
          Result = Ok(t_return_sp \o call.node.children[2].text \o <<";", NL>>)

C2_Witness ==
    /\ Returned("translate_function")
    /\ call.node = AddFunction
    /\ Result = Ok(ExpectedAdd)

RECURSIVE ConcatCodes(_)
ConcatCodes(statements) ==
    IF Len(statements) = 0 THEN <<>>
    ELSE statement_code(statements[1]).s \o ConcatCodes(Tail(statements))

\* C5: the translation of a block is the concatenation of its statements'
\* translations in child order, with nothing between them.
C5_BlockConcatenation ==
    Returned("translate_block") /\ ~MalformedBlock(call.node) =>
        /\ Result.ok
        /\ Result.s = ConcatCodes(call.node.children)
        /\ \A i \in 1..Len(call.node.children) :
              LET upto == ConcatCodes(SubSeq(call.node.children, 1, i))
              IN  IsPrefix(upto, Result.s)

C5_Witness ==
    /\ Returned("translate_block")
    /\ ~MalformedBlock(call.node)
    /\ \E i, j \in 1..Len(call.node.children) :
          /\ i < j
          /\ call.node.children[i].kind = "while_statement"
          /\ call.node.children[j].kind = "return_statement"
    /\ Result.ok

\* the scan of a text for braces: the depth never negative, the depth at the
\* end, the greatest depth and the number of "{"
RECURSIVE BraceScan(_, _, _, _, _)
BraceScan(s, i, depth, max, opened) ==
    IF i > Len(s) THEN [ok |-> TRUE, depth |-> depth, max |-> max, opened |-> opened]
    ELSE IF s[i] = "{"
         THEN BraceScan(s, i + 1, depth + 1,
                        IF depth + 1 > max THEN depth + 1 ELSE max, opened + 1)
         ELSE IF s[i] = "}"
              THEN IF depth = 0
                   THEN [ok |-> FALSE, depth |-> 0, max |-> max, opened |-> opened]
                   ELSE BraceScan(s, i + 1, depth - 1, max, opened)
              ELSE BraceScan(s, i + 1, depth, max, opened)

Braces(s) == BraceScan(s, 1, 0, 0, 0)

IsLoop(st) == st.kind \in {"while_statement", "if_statement"}

\* nesting depth of the while/if statements of a well-formed block
RECURSIVE NestDepth(_)
NestDepth(block) ==
    LET ds == {0} \cup {1 + NestDepth(FieldNode(block.children[i], "body")) :
                          i \in {j \in 1..Len(block.children) : IsLoop(block.children[j])}}
    IN  CHOOSE m \in ds : \A d \in ds : d <= m

\* number of while/if statements of a well-formed block, nested ones included
RECURSIVE LoopCount(_)
RECURSIVE LoopCountFrom(_, _)
LoopCountFrom(statements, i) ==
    IF i > Len(statements) THEN 0
    ELSE (IF IsLoop(statements[i])
          THEN 1 + LoopCount(FieldNode(statements[i], "body")) ELSE 0)
         + LoopCountFrom(statements, i + 1)
LoopCount(block) == LoopCountFrom(block.children, 1)

\* C6: the text of a well-formed function has balanced braces, one pair for the
\* function and one per while/if, each while/if being
\* `<kw> (<condition>) {\n<body translation>}\n`, and the greatest brace depth
\* is the nesting depth of the while/if statements plus one.
C6_BalancedBraces ==
    /\ Returned("translate_function") /\ ~MalformedFunction(call.node) =>
          LET scan == Braces(Result.s)
              body == FieldNode(call.node, "body")
          IN  /\ Result.ok
              /\ scan.ok
              /\ scan.depth = 0
              /\ scan.opened = LoopCount(body) + 1
              /\ scan.max = NestDepth(body) + 1
    /\ Returned("translate_block") /\ ~MalformedBlock(call.node) =>
          \A i \in 1..Len(call.node.children) :
              LET st == call.node.children[i]
              IN  IsLoop(st) =>
                      statement_code(st) =
                          Ok((IF st.kind = "while_statement" THEN t_while ELSE t_if)
                                \o <<" ", "(">> \o FieldText(st, "condition")
                                \o <<")", " ", "{", NL>>
                                \o translate_block(FieldNode(st, "body")).s
                                \o <<"}", NL>>)

C6_Witness ==
    /\ Returned("translate_function")
    /\ ~MalformedFunction(call.node)
    /\ NestDepth(FieldNode(call.node, "body")) = 2
    /\ LoopCount(FieldNode(call.node, "body")) = 3
    /\ Braces(Result.s).max = 3

\* the block without its children of unrecognized kinds
RecognizedOnly(block) ==
    LET keep == {i \in 1..Len(block.children) : block.children[i].kind \in StatementKinds}
        RECURSIVE Pick(_)
        Pick(i) ==
            IF i > Len(block.children) THEN <<>>
            ELSE (IF i \in keep THEN <<i>> ELSE <<>>) \o Pick(i + 1)
        idx == Pick(1)
    IN  Node(block.kind, block.text,
             [k \in 1..Len(idx) |-> block.children[idx[k]]],
             [k \in 1..Len(idx) |-> block.fnames[idx[k]]])

\* C7: a child of an unrecognized kind adds no text and no failure: the block
\* translates as the block without such children does.
C7_UnrecognizedDropped ==
    Returned("translate_block") =>
        /\ Result = translate_block(RecognizedOnly(call.node))
        /\ \A i \in 1..Len(call.node.children) :
              call.node.children[i].kind \notin StatementKinds =>
                  statement_code(call.node.children[i]) = Ok(<<>>)

C7_Witness ==
    /\ Returned("translate_block")
    /\ \E i, j \in 1..Len(call.node.children) :
          /\ i < j
          /\ call.node.children[i] = CallStmt
          /\ call.node.children[j].kind = "return_statement"
    /\ Result.ok
    /\ Result.s # <<>>

RECURSIVE ConcatTopLevel(_)
ConcatTopLevel(children) ==
    IF Len(children) = 0 THEN <<>>
    ELSE (CASE children[1].kind = "function_definition" ->
                  translate_function(children[1]).s
            [] children[1].kind = "variable_declaration" ->
                  translate_variable_declaration(children[1]).s
            [] OTHER -> <<>>)
         \o ConcatTopLevel(Tail(children))

\* C9: the program's translation is the concatenation, in child order, of the
\* translations of its function-definition and variable-declaration children;
\* children of other kinds add nothing and are not descended into.
C9_TopLevelDispatch ==
    Returned("translate_to_c") /\ ~MalformedProgram(call.node) =>
        /\ Result.ok
        /\ Result.s = ConcatTopLevel(call.node.children)

C9_Witness ==
    /\ Returned("translate_to_c")
    /\ Len(call.node.children) = 2
    /\ call.node.children[1].kind = "while_statement"
    /\ MalformedStatement(call.node.children[1])
    /\ call.node.children[2] = AddFunction
    /\ Result = Ok(ExpectedAdd)

\* C8: translation is all or nothing. When a dispatched node lacks a field its
\* rule requires (or a return statement its second child) the walk aborts: no
\* String is returned, no frame's text survives and the file is never written;
\* otherwise the walk returns the complete translation, which main writes.
C8_AllOrNothing ==
    /\ MalformedProgram(tree) => pc \notin {"returned", "done"} /\ file = None
    /\ pc = "panicked" => MalformedProgram(tree) /\ stack = <<>> /\ file = None
    /\ pc = "returned" => rv = ConcatTopLevel(tree.children) /\ stack = <<>>
    /\ pc = "done" => file = Some(ConcatTopLevel(tree.children))
    /\ file # None => pc = "done"
    /\ pc \notin {"done", "panicked"} => ENABLED WalkNext

C8_Witness ==
    /\ pc = "panicked"
    /\ Len(tree.children) = 2
    /\ tree.children[1] = AddFunction
    /\ tree.children[2].kind = "function_definition"
    /\ ~Lacks(tree.children[2], "body")
    /\ MalformedBlock(FieldNode(tree.children[2], "body"))
    /\ file = None

\* one step keeps every live frame's c_code as a prefix of its next value, hands
\* a returning frame's c_code on unchanged, and writes the returned String
AppendOnlyStep ==
    /\ \A k \in 1..Len(stack) :
          IF k <= Len(stack')
          THEN /\ stack'[k].fn = stack[k].fn
               /\ stack'[k].node = stack[k].node
               /\ IsPrefix(stack[k].c_code, stack'[k].c_code)
          ELSE \/ pc' = "panicked"
               \/ k = Len(stack) /\ rv' = stack[k].c_code
    /\ pc = "returned" => file' = Some(rv)

\* C10: the generated output is append-only during the whole walk: the text a
\* call has accumulated is a prefix of what it holds at every later step and of
\* the String it returns.
C10_AppendOnly == [][AppendOnlyStep]_vars

C10_Witness ==
    /\ pc = "walk"
    /\ Len(stack) = 4
    /\ stack[1].c_code = ExpectedAdd
    /\ stack[2].fn = "translate_function"
    /\ stack[2].param_list # <<>>
    /\ stack[3].c_code # <<>>
    /\ Top.c_code # <<>>

====
